---- MODULE Spec2Model ----
(***************************************************************************)
(* Model of the motif_dashboard Streamlit scripts.                         *)
(*                                                                         *)
(*   src/app.py                 network dashboard: one script run is       *)
(*                              Row Filter -> Graph Builder -> companion   *)
(*                              graph -> layout -> edge traces -> node     *)
(*                              trace -> figure and table.                 *)
(*   src/app_big_dataframe.py   tabular dashboard with the session cache   *)
(*   src/utils/sidebar_filters.py   its pickers and filter_dataframe       *)
(*                                                                         *)
(* A Streamlit script is re-run from its first line on every widget        *)
(* interaction; only st.session_state survives a rerun.                    *)
(***************************************************************************)
EXTENDS Integers, Sequences, FiniteSets, TLC

VARIABLES
    \* ---- src/app.py ----
    csv,                \* rows of the file at CSV_PATH (read at line 14)
    coef_direction,     \* selectbox "Correlation direction" (line 21)
    exp_filter,         \* selectbox "Expression type" (line 24)
    df,                 \* the working DataFrame: a sequence of rows
    G,                  \* nx.Graph with signed weights (line 36)
    G_pos_weight,       \* nx.Graph with absolute weights (line 49)
    pos,                \* layout result: node -> coordinate (lines 54-57)
    layout_used,        \* the layout call that ran last in this run
    edge_trace,         \* list of go.Scatter line traces (line 64)
    node_trace,         \* the go.Scatter marker trace (lines 81-113)
    fig,                \* go.Figure data (line 116)
    table,              \* rows handed to st.dataframe (line 144)
    error,              \* the exception that ended the run, or "none"
    pc,                 \* position of the script run
    \* ---- src/app_big_dataframe.py ----
    filters,            \* what sidebar_filters(df) returned in this rerun
    session_state,      \* st.session_state: survives reruns
    applied,            \* history: <<selections of the most recent apply>>, <<>> before any
    reruns,             \* number of reruns so far (bounded)
    \* ---- the input file of each script; src/app_previous.py ----
    script,             \* the script this process runs
    disk_file,          \* the file at the script's CSV path
    uploaded_file,      \* st.file_uploader's value (app_previous.py line 190)
    loaded_df,          \* the DataFrame the script loaded
    prev_filters,       \* app_previous.py: the filters dict of this run (line 218)
    filtered_df,        \* app_previous.py: filter_data's result (line 275)
    messages,           \* st.error / st.warning / st.info / st.success shown in this run
    run_state,          \* "start", "done", or "crashed" by an unhandled exception
    changes             \* number of widget changes so far (bounded)

netvars == <<csv, coef_direction, exp_filter, df, G, G_pos_weight, pos,
             layout_used, edge_trace, node_trace, fig, table, error, pc>>
tabvars == <<filters, session_state, applied, reruns>>
filevars == <<script, disk_file, uploaded_file, loaded_df, prev_filters, filtered_df,
              messages, run_state, changes>>
vars == <<netvars, tabvars, filevars>>

-----------------------------------------------------------------------------
(* Bounds of the model *)

MaxRows == 2            \* longest CSV the network dashboard is run on
MaxReruns == 4          \* reruns of the tabular dashboard per session
MaxChanges == 2         \* widget changes of app_previous.py per session

-----------------------------------------------------------------------------
(* Input domains of the network dashboard.  The identifier columns share   *)
(* their values: the CSV correlates KRAB-ZNF genes with genes, so one      *)
(* symbol can sit in column 'KRAB-ZNF' of one row and 'Gene' of another.   *)

Symbols == {"ZNF1", "ZNF2"}
Coefs == {-1, 0, 1}
ExpValues == {"up-regulated", "down-regulated", "unchanged"}

Rows == [KRAB_ZNF : Symbols, Gene : Symbols, coef : Coefs, exp : ExpValues]

RECURSIVE SeqsUpTo(_, _)
SeqsUpTo(S, n) ==
    IF n = 0 THEN {<<>>}
    ELSE LET shorter == SeqsUpTo(S, n - 1)
         IN  shorter \cup {Append(s, x) : s \in {t \in shorter : Len(t) = n - 1}, x \in S}

CoefDirections == {"both", "positive", "negative"}
ExpFilters == {"both", "up-regulated", "down-regulated"}

custom_red == "#C41E3A"
custom_blue == "#5073F8"

Abs(x) == IF x < 0 THEN -x ELSE x

-----------------------------------------------------------------------------
(* networkx.Graph as the script uses it: insertion-ordered nodes with an   *)
(* attribute dict each, insertion-ordered neighbours, and one data dict    *)
(* per undirected edge (shared by both directions, so keyed by {u, v}).    *)

Empty == [x \in {} |-> x]

NewGraph == [nodes |-> <<>>, attr |-> Empty, adj |-> Empty, weight |-> Empty]

InSeq(x, s) == \E k \in 1..Len(s) : s[k] = x

\* dict.update: keys of `new` overwrite, other keys of `old` stay
DictUpdate(old, new) ==
    [k \in DOMAIN old \cup DOMAIN new |-> IF k \in DOMAIN new THEN new[k] ELSE old[k]]

\* G.add_node(n, **a): a new node is appended; an existing node keeps its
\* place and has its attribute dict updated with a
add_node(g, n, a) ==
    IF n \in DOMAIN g.attr
    THEN [g EXCEPT !.attr[n] = DictUpdate(@, a)]
    ELSE [g EXCEPT !.nodes = Append(@, n),
                   !.attr = @ @@ (n :> a),
                   !.adj = @ @@ (n :> <<>>)]

\* G.add_edge(u, v, weight=w): missing endpoints are created without
\* attributes; the edge's data dict is created or updated
add_edge(g, u, v, w) ==
    LET g1 == IF u \in DOMAIN g.attr THEN g ELSE add_node(g, u, Empty)
        g2 == IF v \in DOMAIN g1.attr THEN g1 ELSE add_node(g1, v, Empty)
        a1 == [g2.adj EXCEPT ![u] = IF InSeq(v, @) THEN @ ELSE Append(@, v)]
        a2 == [a1 EXCEPT ![v] = IF InSeq(u, @) THEN @ ELSE Append(@, u)]
    IN  [g2 EXCEPT !.adj = a2,
                   !.weight = [e \in DOMAIN @ \cup {{u, v}} |->
                                  IF e = {u, v} THEN w ELSE @[e]]]

\* G.edges(data=True): nodes in insertion order, each neighbour not yet
\* seen as a node, so every undirected edge is reported once
RECURSIVE EdgesFrom(_, _)
EdgesFrom(g, k) ==
    IF k > Len(g.nodes) THEN <<>>
    ELSE LET n == g.nodes[k]
             seen == {g.nodes[j] : j \in 1..(k - 1)}
             nbrs == SelectSeq(g.adj[n], LAMBDA m : m \notin seen)
         IN  [j \in 1..Len(nbrs) |-> <<n, nbrs[j], g.weight[{n, nbrs[j]}]>>]
             \o EdgesFrom(g, k + 1)

edges(g) == EdgesFrom(g, 1)

NodeSet(g) == {g.nodes[k] : k \in 1..Len(g.nodes)}
EdgeSet(g) == DOMAIN g.weight

-----------------------------------------------------------------------------
(* src/app.py, one script run *)

\* lines 27-30: the sign filter
FilterCoef(d, dir) ==
    IF dir = "positive" THEN SelectSeq(d, LAMBDA r : r.coef > 0)
    ELSE IF dir = "negative" THEN SelectSeq(d, LAMBDA r : r.coef < 0)
    ELSE d

\* lines 32-33: the category filter
FilterExp(d, ef) ==
    IF ef # "both" THEN SelectSeq(d, LAMBDA r : r.exp = ef) ELSE d

\* variant of FilterRows whose sign tests let coef = 0 through
FilterRows_SignInclusive(d, dir, ef) ==
    FilterExp(IF dir = "positive" THEN SelectSeq(d, LAMBDA r : r.coef >= 0)
              ELSE IF dir = "negative" THEN SelectSeq(d, LAMBDA r : r.coef <= 0)
              ELSE d, ef)

\* lines 26-33: both filters, the second on the result of the first
FilterRows(d, dir, ef) == FilterExp(FilterCoef(d, dir), ef)

\* lines 39-46: the body of the row loop
InsertRow(g, row) ==
    LET gene == row.KRAB_ZNF
        te == row.Gene
        g1 == add_node(g, gene, [type |-> "gene"])
        g2 == add_node(g1, te, [type |-> "te", exp |-> row.exp])
    IN  add_edge(g2, gene, te, row.coef)

\* lines 50-51: the add_edge loop of the companion graph
RECURSIVE AddEdgesAbs(_, _, _)
AddEdgesAbs(g, es, k) ==
    IF k > Len(es) THEN g
    ELSE AddEdgesAbs(add_edge(g, es[k][1], es[k][2], Abs(es[k][3])), es, k + 1)

\* variant of PosWeightGraph that copies the signed weight
RECURSIVE AddEdgesSigned(_, _, _)
AddEdgesSigned(g, es, k) ==
    IF k > Len(es) THEN g
    ELSE AddEdgesSigned(add_edge(g, es[k][1], es[k][2], es[k][3]), es, k + 1)

PosWeightGraph_Signed(g) == AddEdgesSigned(NewGraph, edges(g), 1)

\* lines 49-51: the companion graph, from the edges of G alone
PosWeightGraph(g) == AddEdgesAbs(NewGraph, edges(g), 1)

\* lines 54-57: what the two networkx layout calls can do on graph g.
\* spring_layout returns {} for a graph without nodes and the centre for a
\* single node before it computes anything; beyond that either call can
\* raise (kamada_kawai_layout needs scipy and a solvable distance matrix,
\* spring_layout needs scipy for its sparse solver).
\*   "kamada_kawai"  the primary call returns
\*   "spring"        the primary call raises, the fallback returns
\*   "raise"         the primary call raises, the fallback raises
\* (LayoutOutcomes_NoEarlyReturn: a fallback that can raise on any graph)
LayoutOutcomes_NoEarlyReturn(g) == {"kamada_kawai", "spring", "raise"}

LayoutOutcomes(g) ==
    IF Len(g.nodes) <= 1 THEN {"kamada_kawai", "spring"}
    ELSE {"kamada_kawai", "spring", "raise"}

\* A layout's result: a coordinate for every node of the graph it was given.
\* The coordinates are the library's business; the model records the node's
\* rank in the graph.
IndexOf(g, n) == CHOOSE k \in 1..Len(g.nodes) : g.nodes[k] = n
LayoutOf(g) == [n \in NodeSet(g) |-> <<IndexOf(g, n), 0>>]

\* variant of EdgeColor that draws weight 0 in the positive colour
EdgeColor_ZeroIsPositive(w) == IF w >= 0 THEN custom_red ELSE custom_blue

\* line 66
EdgeColor(w) == IF w > 0 THEN custom_red ELSE custom_blue

\* lines 67-78: one go.Scatter per edge (the label keeps the weight itself)
EdgeScatter(e, p) ==
    [x |-> <<p[e[1]][1], p[e[2]][1]>>,
     y |-> <<p[e[1]][2], p[e[2]][2]>>,
     mode |-> "lines",
     color |-> EdgeColor(e[3]),
     text |-> <<e[1], e[2], e[3]>>]

\* lines 90-96
NodeFill(a) == IF a["type"] = "gene" THEN "orange" ELSE "lightgreen"
NodeBorderColor(a) ==
    IF a["type"] = "gene" THEN "black"
    ELSE LET exp == IF "exp" \in DOMAIN a THEN a["exp"] ELSE "up"
         IN  IF exp = "up-regulated" THEN custom_red ELSE custom_blue

EmptyTrace == [x |-> <<>>, y |-> <<>>, text |-> <<>>, color |-> <<>>,
               line_color |-> <<>>, mode |-> "markers+text"]

NoFig == [data |-> <<>>, shown |-> FALSE]

\* lines 38-46: the row loop over the filtered table, from row k on
RECURSIVE InsertRows(_, _, _)
InsertRows(g, d, k) ==
    IF k > Len(d) THEN g ELSE InsertRows(InsertRow(g, d[k]), d, k + 1)

\* lines 64-78: the edge loop; pos[u] or pos[v] of a node that has no
\* position is a KeyError
EdgeLoopFails(g, p) ==
    \E k \in 1..Len(edges(g)) : edges(g)[k][1] \notin DOMAIN p \/ edges(g)[k][2] \notin DOMAIN p
EdgeLoop(g, p) == [k \in 1..Len(edges(g)) |-> EdgeScatter(edges(g)[k], p)]

\* lines 81-113: the node loop and the marker trace; pos[node] and
\* G.nodes[node]['type'] can be a KeyError
NodeLoopFails(g, p) ==
    \E k \in 1..Len(g.nodes) : g.nodes[k] \notin DOMAIN p \/ "type" \notin DOMAIN g.attr[g.nodes[k]]
NodeScatter(g, p) ==
    [x |-> [k \in 1..Len(g.nodes) |-> p[g.nodes[k]][1]],
     y |-> [k \in 1..Len(g.nodes) |-> p[g.nodes[k]][2]],
     text |-> g.nodes,
     color |-> [k \in 1..Len(g.nodes) |-> NodeFill(g.attr[g.nodes[k]])],
     line_color |-> [k \in 1..Len(g.nodes) |-> NodeBorderColor(g.attr[g.nodes[k]])],
     mode |-> "markers+text"]

\* lines 14-33: a run of the script starts: the file is read, the two
\* selectboxes give their values, the rows are filtered.  Nothing of the
\* previous run is left.
RowFilter(dir, ef) ==
    /\ coef_direction' = dir
    /\ exp_filter' = ef
    /\ df' = FilterRows(csv, dir, ef)
    /\ G' = NewGraph
    /\ G_pos_weight' = NewGraph
    /\ pos' = Empty
    /\ layout_used' = "none"
    /\ edge_trace' = <<>>
    /\ node_trace' = EmptyTrace
    /\ fig' = NoFig
    /\ table' = <<>>
    /\ error' = "none"
    /\ pc' = "build"
    /\ UNCHANGED csv

\* The page is opened: the first run, both selectboxes at index 0
FirstLoad ==
    /\ UNCHANGED <<tabvars, filevars>>
    /\ pc = "start"
    /\ RowFilter("both", "both")

\* The user changes one selectbox (line 21 or 24) after a run has ended:
\* the script runs again from its first line
SelectboxChange ==
    /\ UNCHANGED <<tabvars, filevars>>
    /\ pc \in {"done", "crashed"}
    /\ \E dir \in CoefDirections, ef \in ExpFilters :
          /\ (dir = coef_direction) # (ef = exp_filter)
          /\ RowFilter(dir, ef)

\* lines 35-51: G from the filtered rows, then the companion graph
GraphBuilder ==
    /\ UNCHANGED <<tabvars, filevars>>
    /\ pc = "build"
    /\ G' = InsertRows(NewGraph, df, 1)
    /\ G_pos_weight' = PosWeightGraph(G')
    /\ pc' = "layout"
    /\ UNCHANGED <<csv, coef_direction, exp_filter, df, pos, layout_used,
                   edge_trace, node_trace, fig, table, error>>

\* line 55 returns
LayoutPrimary ==
    /\ UNCHANGED <<tabvars, filevars>>
    /\ pc = "layout"
    /\ "kamada_kawai" \in LayoutOutcomes(G_pos_weight)
    /\ pos' = LayoutOf(G_pos_weight)
    /\ layout_used' = "kamada_kawai"
    /\ pc' = "render"
    /\ UNCHANGED <<csv, coef_direction, exp_filter, df, G, G_pos_weight,
                   edge_trace, node_trace, fig, table, error>>

\* line 55 raises, the bare except (line 56) catches it, line 57 returns
LayoutFallback ==
    /\ UNCHANGED <<tabvars, filevars>>
    /\ pc = "layout"
    /\ "spring" \in LayoutOutcomes(G_pos_weight)
    /\ pos' = LayoutOf(G_pos_weight)
    /\ layout_used' = "spring"
    /\ pc' = "render"
    /\ UNCHANGED <<csv, coef_direction, exp_filter, df, G, G_pos_weight,
                   edge_trace, node_trace, fig, table, error>>

\* line 55 raises, line 57 raises inside the except block: nothing catches it
LayoutFallbackRaises ==
    /\ UNCHANGED <<tabvars, filevars>>
    /\ pc = "layout"
    /\ "raise" \in LayoutOutcomes(G_pos_weight)
    /\ layout_used' = "spring"
    /\ error' = "layout"
    /\ pc' = "crashed"
    /\ UNCHANGED <<csv, coef_direction, exp_filter, df, G, G_pos_weight, pos,
                   edge_trace, node_trace, fig, table>>

\* lines 59-144: edge traces, node trace, figure, chart and table
Renderer ==
    /\ UNCHANGED <<tabvars, filevars>>
    /\ pc = "render"
    /\ IF EdgeLoopFails(G, pos)
       THEN /\ pc' = "crashed" /\ error' = "KeyError"
            /\ UNCHANGED <<edge_trace, node_trace, fig, table>>
       ELSE IF NodeLoopFails(G, pos)
       THEN /\ pc' = "crashed" /\ error' = "KeyError"
            /\ edge_trace' = EdgeLoop(G, pos)
            /\ UNCHANGED <<node_trace, fig, table>>
       ELSE /\ edge_trace' = EdgeLoop(G, pos)
            /\ node_trace' = NodeScatter(G, pos)
            /\ fig' = [data |-> edge_trace' \o <<node_trace'>>, shown |-> TRUE]
            /\ table' = df
            /\ pc' = "done"
            /\ error' = error
    /\ UNCHANGED <<csv, coef_direction, exp_filter, df, G, G_pos_weight, pos, layout_used>>

\* The file at CSV_PATH: any table of up to MaxRows rows.  The two symbols
\* are interchangeable, so the first row's KRAB-ZNF is taken to be ZNF1.
NetInit ==
    /\ csv \in {s \in SeqsUpTo(Rows, MaxRows) : s = <<>> \/ s[1].KRAB_ZNF = "ZNF1"}
    /\ coef_direction = "both"
    /\ exp_filter = "both"
    /\ df = <<>>
    /\ G = NewGraph
    /\ G_pos_weight = NewGraph
    /\ pos = Empty
    /\ layout_used = "none"
    /\ edge_trace = <<>>
    /\ node_trace = EmptyTrace
    /\ fig = NoFig
    /\ table = <<>>
    /\ error = "none"
    /\ pc = "start"

Next ==
    \/ FirstLoad
    \/ SelectboxChange
    \/ GraphBuilder
    \/ LayoutPrimary
    \/ LayoutFallback
    \/ LayoutFallbackRaises
    \/ Renderer

-----------------------------------------------------------------------------
(* src/app_big_dataframe.py with src/utils/sidebar_filters.py *)

\* load_data() (lines 6-12): the table of data/df_dashboard.csv, the same
\* in every rerun.  Only the seven columns the pickers read are kept.
TabRow(c, m, t, f, k, s, g) ==
    [CHROM |-> c, MOTIF |-> m, TE |-> t, FAMILY |-> f, CLASS |-> k, SPECIES |-> s, GENE |-> g]

load_data ==
    << TabRow("chr1", "M1", "L1PA2", "L1", "LINE", "human", "ZNF1"),
       TabRow("chr2", "M1", "AluSx", "Alu", "SINE", "human", "ZNF2"),
       TabRow("chr1", "M2", "AluSx", "Alu", "SINE", "mouse", "ZNF1") >>

\* the keys of the dict sidebar_filters returns, with the column each reads
FilterKeys == {"chrom", "motif", "te", "family", "class", "species", "gene"}
ColumnOf(key) ==
    CASE key = "chrom" -> "CHROM"
      [] key = "motif" -> "MOTIF"
      [] key = "te" -> "TE"
      [] key = "family" -> "FAMILY"
      [] key = "class" -> "CLASS"
      [] key = "species" -> "SPECIES"
      [] key = "gene" -> "GENE"

\* sidebar_filters lines 8-55: the options of a picker are the values its
\* column holds; a selection is a list of options (kept as a set: isin
\* does not read its order)
Options(d, key) == {d[k][ColumnOf(key)] : k \in 1..Len(d)}

NoSelection == [apply |-> FALSE, chrom |-> {}, motif |-> {}, te |-> {}, family |-> {},
                class |-> {}, species |-> {}, gene |-> {}]

\* filter_dataframe lines 73-92: one `if filters[key]: filtered_df = ...isin`
IsinStep(d, f, key) ==
    IF f[key] # {} THEN SelectSeq(d, LAMBDA r : r[ColumnOf(key)] \in f[key]) ELSE d

\* filter_dataframe lines 70-94
filter_dataframe(d, f) ==
    LET d1 == IsinStep(d, f, "chrom")
        d2 == IsinStep(d1, f, "motif")
        d3 == IsinStep(d2, f, "te")
        d4 == IsinStep(d3, f, "family")
        d5 == IsinStep(d4, f, "class")
        d6 == IsinStep(d5, f, "species")
    IN  IsinStep(d6, f, "gene")

\* variant of RunScript that filters the cached view instead of the table
RunScript_FilterCachedView(d, ss, f) ==
    LET ss1 == IF "filtered_df" \notin DOMAIN ss THEN ss @@ ("filtered_df" :> d) ELSE ss
    IN  IF f.apply
        THEN [ss1 EXCEPT !["filtered_df"] = filter_dataframe(@, f)]
        ELSE ss1

\* app_big_dataframe.py lines 18-23: what one run of the script leaves in
\* st.session_state, given the loaded table and this run's filters
RunScript(d, ss, f) ==
    LET ss1 == IF "filtered_df" \notin DOMAIN ss THEN ss @@ ("filtered_df" :> d) ELSE ss
    IN  IF f.apply
        THEN [ss1 EXCEPT !["filtered_df"] = filter_dataframe(d, f)]
        ELSE ss1

\* The page is opened: the first run, nothing selected, button not pressed
FirstRun ==
    /\ UNCHANGED <<netvars, filevars>>
    /\ "filtered_df" \notin DOMAIN session_state
    /\ filters' = NoSelection
    /\ session_state' = RunScript(load_data, session_state, filters')
    /\ UNCHANGED <<applied, reruns>>

\* The user adds or removes one option of one picker: a rerun in which the
\* button reads False
PickerChange ==
    /\ UNCHANGED <<netvars, filevars>>
    /\ "filtered_df" \in DOMAIN session_state
    /\ reruns < MaxReruns
    /\ \E key \in FilterKeys : \E v \in Options(load_data, key) :
          filters' = [filters EXCEPT !.apply = FALSE,
                                     ![key] = IF v \in @ THEN @ \ {v} ELSE @ \cup {v}]
    /\ session_state' = RunScript(load_data, session_state, filters')
    /\ reruns' = reruns + 1
    /\ UNCHANGED applied

\* The user presses "Apply Filters": a rerun with the pickers as they are
\* and the button reading True
PressApply ==
    /\ UNCHANGED <<netvars, filevars>>
    /\ "filtered_df" \in DOMAIN session_state
    /\ reruns < MaxReruns
    /\ filters' = [filters EXCEPT !.apply = TRUE]
    /\ session_state' = RunScript(load_data, session_state, filters')
    /\ applied' = <<[filters' EXCEPT !.apply = FALSE]>>
    /\ reruns' = reruns + 1

TabInit ==
    /\ filters = NoSelection
    /\ session_state = Empty
    /\ applied = <<>>
    /\ reruns = 0

NextTab ==
    \/ FirstRun
    \/ PickerChange
    \/ PressApply

-----------------------------------------------------------------------------
(* The input file of each script, and src/app_previous.py *)

Scripts == {"app", "app_big_dataframe", "app_previous"}

\* A CSV file as pd.read_csv sees it: its header and its rows.  A cell of a
\* text column is a string; a cell of a numeric column either parses as the
\* number v or does not parse.
Num(n) == [ok |-> TRUE, v |-> n]
NotANumber == [ok |-> FALSE, v |-> 0]

required_columns ==
    {"chr", "start", "end", "motif", "strand", "pvalue", "tefamily", "class",
     "length", "gene", "species"}
NumericColumns == {"start", "end", "pvalue", "length"}

\* lines 55-67: the sample data; p-values in units of 1e-11
SampleRow(c, s, e, m, st, p, t, k, l, g) ==
    [chr |-> c, start |-> Num(s), end |-> Num(e), motif |-> m, strand |-> st,
     pvalue |-> Num(p), tefamily |-> t, class |-> k, length |-> Num(l), gene |-> g,
     species |-> "Human"]

sample_data ==
    [columns |-> required_columns,
     rows |-> << SampleRow("chr2", 227070450, 227070471, "MA1987.1", "-", 108, "HAL1", "L1", 21, "SAMPLE1"),
                 SampleRow("chr4", 179300015, 179300036, "MA1987.1", "+", 238, "L1PA8A", "L1", 21, "SAMPLE2"),
                 SampleRow("chr1", 123456789, 123456810, "MA1988.2", "+", 3450, "L1PA2", "L1", 21, "SAMPLE3"),
                 SampleRow("chr3", 98765432, 98765453, "MA1989.3", "-", 12300, "AluSx", "SINE", 18, "SAMPLE4"),
                 SampleRow("chr5", 87654321, 87654342, "MA1987.1", "+", 567, "L1PA8A", "L1", 21, "SAMPLE5") >>]

\* Files a user can have: a header with padded and alternative names, a
\* length that does not parse, a p-value of 0, a negative length and a row
\* without start; a file without the chr and species columns.
UserFileA ==
    [columns |-> {" chromosome", "start", "end", "motif", "strand", "pvalue",
                  "te_family", "classification", "length", "gene", "species"},
     rows |-> << (" chromosome" :> "chr1") @@ ("start" :> Num(100)) @@ ("end" :> Num(121))
                   @@ ("motif" :> "MA1987.1") @@ ("strand" :> "+") @@ ("pvalue" :> Num(0))
                   @@ ("te_family" :> "L1PA2") @@ ("classification" :> "L1")
                   @@ ("length" :> NotANumber) @@ ("gene" :> "ZNF1") @@ ("species" :> "Human"),
                 (" chromosome" :> "chr10") @@ ("start" :> Num(200)) @@ ("end" :> Num(221))
                   @@ ("motif" :> "MA1987.1") @@ ("strand" :> "-") @@ ("pvalue" :> Num(5))
                   @@ ("te_family" :> "L1PA2") @@ ("classification" :> "L1")
                   @@ ("length" :> Num(-3)) @@ ("gene" :> "ZNF1") @@ ("species" :> "Human"),
                 (" chromosome" :> "chr1") @@ ("start" :> NotANumber) @@ ("end" :> Num(321))
                   @@ ("motif" :> "MA1988.2") @@ ("strand" :> "+") @@ ("pvalue" :> Num(7))
                   @@ ("te_family" :> "AluSx") @@ ("classification" :> "SINE")
                   @@ ("length" :> Num(21)) @@ ("gene" :> "ZNF2") @@ ("species" :> "Human") >>]

UserFileB ==
    [columns |-> {"start", "end", "motif", "strand", "pvalue", "tefamily", "class",
                  "length", "gene"},
     rows |-> << ("start" :> Num(100)) @@ ("end" :> Num(121)) @@ ("motif" :> "MA1987.1")
                   @@ ("strand" :> "+") @@ ("pvalue" :> Num(5)) @@ ("tefamily" :> "L1PA2")
                   @@ ("class" :> "L1") @@ ("length" :> Num(21)) @@ ("gene" :> "ZNF1") >>]

UserFiles == {UserFileA, UserFileB}

Missing == [status |-> "missing", table |-> [columns |-> {}, rows |-> <<>>]]
Unreadable == [status |-> "unreadable", table |-> [columns |-> {}, rows |-> <<>>]]
NoUpload == [status |-> "none", table |-> [columns |-> {}, rows |-> <<>>]]
Readable(t) == [status |-> "ok", table |-> t]

\* line 71 (str.strip) and lines 74-79 (rename) on one column name
CleanName(c) ==
    LET stripped == IF c = " chromosome" THEN "chromosome" ELSE c
    IN  CASE stripped = "chromosome" -> "chr"
          [] stripped = "te_family" -> "tefamily"
          [] stripped = "classification" -> "class"
          [] OTHER -> stripped

\* lines 71-91 on one row: clean names, add the missing required columns as
\* '', coerce the numeric columns (what does not parse becomes 0)
CleanRow(t, r) ==
    [c \in required_columns |->
        LET from == {o \in t.columns : CleanName(o) = c}
        IN  IF c \in NumericColumns
            THEN (IF from = {} THEN 0
                  ELSE LET cell == r[CHOOSE o \in from : TRUE]
                       IN  IF cell.ok THEN cell.v ELSE 0)
            ELSE (IF from = {} THEN "" ELSE r[CHOOSE o \in from : TRUE])]

\* lines 70-96: the table pd.read_csv or pd.DataFrame gave, cleaned, without
\* the rows that lack chr, start or end
CleanTable(t) ==
    SelectSeq([k \in 1..Len(t.rows) |-> CleanRow(t, t.rows[k])],
              LAMBDA r : r["chr"] # "" /\ r["start"] > 0 /\ r["end"] > 0)

\* load_csv_data, lines 46-100: [df, error] for a path's file and an upload.
\* pd.read_csv raises on what it cannot read; the except returns the empty
\* DataFrame after st.error.
load_csv_data(file, upload) ==
    IF upload.status # "none"
    THEN (IF upload.status = "ok" THEN [df |-> CleanTable(upload.table), error |-> FALSE]
          ELSE [df |-> <<>>, error |-> TRUE])
    ELSE IF file.status # "missing"
    THEN (IF file.status = "ok" THEN [df |-> CleanTable(file.table), error |-> FALSE]
          ELSE [df |-> <<>>, error |-> TRUE])
    ELSE [df |-> CleanTable(sample_data), error |-> FALSE]

\* lines 221-263: the options of the selectboxes and the values the number
\* inputs are given (min_value 0; p-values in units of 1e-11)
TextFilters == <<"chr", "motif", "strand", "class", "tefamily", "gene", "species">>
TextFilterSet == {TextFilters[k] : k \in 1..Len(TextFilters)}
SelectOptions(d, col) ==
    IF col = "strand" THEN {"", "+", "-"}
    ELSE {""} \cup {d[k][col] : k \in 1..Len(d)}
PvalueInputs == {0, 5, 238}
LengthInputs == {0, 20, 21}

DefaultFilters ==
    [chr |-> "", motif |-> "", strand |-> "", class |-> "", tefamily |-> "",
     gene |-> "", species |-> "", pvalue_max |-> 0, length_min |-> 0]

\* lines 120-124: the loop over the text filters, from the k-th on; the two
\* numeric keys are no columns of the table and are passed over
RECURSIVE EqualityFilters(_, _, _)
EqualityFilters(d, f, k) ==
    IF k > Len(TextFilters) THEN d
    ELSE LET col == TextFilters[k]
         IN  EqualityFilters(IF f[col] # "" THEN SelectSeq(d, LAMBDA r : r[col] = f[col]) ELSE d,
                             f, k + 1)

\* variant of filter_data with the length filter nested under the p-value `if`
filter_data_LengthUnderPvalue(d, f) ==
    LET d1 == EqualityFilters(d, f, 1)
    IN  IF f.pvalue_max # 0
        THEN LET d2 == SelectSeq(d1, LAMBDA r : r["pvalue"] <= f.pvalue_max)
             IN  IF f.length_min # 0
                 THEN SelectSeq(d2, LAMBDA r : r["length"] >= f.length_min) ELSE d2
        ELSE d1

\* filter_data, lines 116-133: `if filters.get(...)` is false for 0
filter_data(d, f) ==
    LET d1 == EqualityFilters(d, f, 1)
        d2 == IF f.pvalue_max # 0
              THEN SelectSeq(d1, LAMBDA r : r["pvalue"] <= f.pvalue_max) ELSE d1
    IN  IF f.length_min # 0
        THEN SelectSeq(d2, LAMBDA r : r["length"] >= f.length_min) ELSE d2

\* main(), lines 177-348, with the widgets holding w
MainRun(w) ==
    LET first == load_csv_data(disk_file, NoUpload)              \* line 183
        second == load_csv_data(disk_file, uploaded_file)        \* line 197
        d == IF uploaded_file.status # "none" THEN second.df ELSE first.df
        loading == (IF first.error THEN <<"error: loading data">> ELSE <<>>)
                   \o (IF uploaded_file.status # "none" /\ second.error
                       THEN <<"error: loading data">> ELSE <<>>)
        source == IF uploaded_file.status # "none" THEN <<"success: loaded upload">>
                  ELSE IF disk_file.status # "missing" THEN <<"info: auto-loaded">>
                  ELSE <<"warning: using sample data">>
    IN  /\ loaded_df' = d
        /\ IF d = <<>>
           THEN /\ prev_filters' = Empty
                /\ filtered_df' = <<>>
                /\ messages' = loading \o source \o <<"error: no data available">>
           ELSE /\ prev_filters' = w
                /\ filtered_df' = filter_data(d, w)
                /\ messages' = loading \o source
                      \o (IF filtered_df' = <<>> THEN <<"warning: no data matches">> ELSE <<>>)
        /\ run_state' = "done"
        /\ UNCHANGED <<script, disk_file, uploaded_file>>

\* app_previous.py: the page is opened, every widget at its default
PreviousFirstRun ==
    /\ UNCHANGED <<netvars, tabvars>>
    /\ script = "app_previous"
    /\ run_state = "start"
    /\ MainRun(DefaultFilters)
    /\ UNCHANGED changes

\* app_previous.py: the user changes one selectbox or one number input
PreviousWidgetChange ==
    /\ UNCHANGED <<netvars, tabvars>>
    /\ script = "app_previous"
    /\ run_state = "done"
    /\ loaded_df # <<>>
    /\ changes < MaxChanges
    /\ changes' = changes + 1
    /\ \/ \E col \in TextFilterSet : \E v \in SelectOptions(loaded_df, col) :
             /\ v # prev_filters[col]
             /\ MainRun([prev_filters EXCEPT ![col] = v])
       \/ \E v \in PvalueInputs :
             /\ v # prev_filters.pvalue_max
             /\ MainRun([prev_filters EXCEPT !.pvalue_max = v])
       \/ \E v \in LengthInputs :
             /\ v # prev_filters.length_min
             /\ MainRun([prev_filters EXCEPT !.length_min = v])

\* app.py line 14: pd.read_csv(CSV_PATH, index_col=0), outside any try
NetworkReadCsv ==
    /\ UNCHANGED <<netvars, tabvars>>
    /\ script = "app"
    /\ run_state = "start"
    /\ IF disk_file.status = "ok"
       THEN /\ loaded_df' = disk_file.table.rows
            /\ messages' = <<>>
            /\ run_state' = "done"
       ELSE /\ loaded_df' = <<>>
            /\ messages' = <<>>
            /\ run_state' = "crashed"
    /\ UNCHANGED <<script, disk_file, uploaded_file, prev_filters, filtered_df, changes>>

\* app_big_dataframe.py lines 6-12: load_data(), outside any try
TabularLoadData ==
    /\ UNCHANGED <<netvars, tabvars>>
    /\ script = "app_big_dataframe"
    /\ run_state = "start"
    /\ IF disk_file.status = "ok"
       THEN /\ loaded_df' = disk_file.table.rows
            /\ messages' = <<>>
            /\ run_state' = "done"
       ELSE /\ loaded_df' = <<>>
            /\ messages' = <<>>
            /\ run_state' = "crashed"
    /\ UNCHANGED <<script, disk_file, uploaded_file, prev_filters, filtered_df, changes>>

\* While a script is modelled by Spec or SpecTab its file is readable
FileIdle ==
    /\ script = "app"
    /\ disk_file = Readable(sample_data)
    /\ uploaded_file = NoUpload
    /\ loaded_df = <<>>
    /\ prev_filters = Empty
    /\ filtered_df = <<>>
    /\ messages = <<>>
    /\ run_state = "done"
    /\ changes = 0

\* A script is started with its file missing, unreadable or readable; only
\* app_previous.py has an uploader
FileInit ==
    /\ script \in Scripts
    /\ disk_file \in {Missing, Unreadable} \cup {Readable(t) : t \in UserFiles}
    /\ uploaded_file \in IF script = "app_previous"
                         THEN {NoUpload, Unreadable} \cup {Readable(t) : t \in UserFiles}
                         ELSE {NoUpload}
    /\ loaded_df = <<>>
    /\ prev_filters = Empty
    /\ filtered_df = <<>>
    /\ messages = <<>>
    /\ run_state = "start"
    /\ changes = 0

NextFiles ==
    \/ NetworkReadCsv
    \/ TabularLoadData
    \/ PreviousFirstRun
    \/ PreviousWidgetChange

-----------------------------------------------------------------------------
(* Specifications: each dashboard is its own Streamlit process *)

Init == NetInit /\ TabInit /\ FileIdle
Spec == Init /\ [][Next]_vars

InitTab == csv = <<>> /\ NetInit /\ TabInit /\ FileIdle
SpecTab == InitTab /\ [][NextTab]_vars

InitFiles == csv = <<>> /\ NetInit /\ TabInit /\ FileInit
SpecFiles == InitFiles /\ [][NextFiles]_vars

-----------------------------------------------------------------------------
(* Stages of a run of src/app.py *)

Filtered == pc # "start"                        \* df is the filtered record set
Built == pc \notin {"start", "build"}           \* every row is in G and in G_pos_weight
LaidOut == pc \in {"render", "done"} \/ (pc = "crashed" /\ error = "KeyError")
Drawn == pc = "done"

RunStep ==
    \/ GraphBuilder
    \/ LayoutPrimary \/ LayoutFallback \/ LayoutFallbackRaises
    \/ Renderer

LineTraces(f) == SelectSeq(f.data, LAMBDA t : t.mode = "lines")
MarkerTraces(f) == SelectSeq(f.data, LAMBDA t : t.mode = "markers+text")

-----------------------------------------------------------------------------
(* C1: Row Filter *)

SignKeeps(r, dir) ==
    \/ dir = "both"
    \/ dir = "positive" /\ r.coef > 0
    \/ dir = "negative" /\ r.coef < 0

CategoryKeeps(r, ef) == ef = "both" \/ r.exp = ef

RECURSIVE RowsSatisfying(_, _, _)
RowsSatisfying(d, dir, ef) ==
    IF d = <<>> THEN <<>>
    ELSE (IF SignKeeps(Head(d), dir) /\ CategoryKeeps(Head(d), ef) THEN <<Head(d)>> ELSE <<>>)
         \o RowsSatisfying(Tail(d), dir, ef)

\* C1: the filtered table holds exactly the rows of the file that satisfy the
\* sign predicate (positive: coef > 0, negative: coef < 0) and the category
\* predicate (exp equal to the choice), in file order; so a row with coef = 0
\* survives only under sign "both", every filtered row is a row of the file,
\* and both/both returns the file unchanged.
C1_RowFilterExact ==
    Filtered =>
        /\ df = RowsSatisfying(csv, coef_direction, exp_filter)
        /\ \A k \in 1..Len(df) : \E j \in 1..Len(csv) : df[k] = csv[j]
        /\ \A k \in 1..Len(df) : df[k].coef = 0 => coef_direction = "both"
        /\ (coef_direction = "both" /\ exp_filter = "both") => df = csv

C1_Witness ==
    /\ pc = "done"
    /\ coef_direction = "positive" /\ exp_filter = "up-regulated"
    /\ Len(csv) = 2 /\ Len(df) = 1
    /\ \E k \in 1..Len(csv) : csv[k].coef = 0 /\ csv[k].exp = "up-regulated"

-----------------------------------------------------------------------------
(* C2: session cache of the tabular dashboard *)

Selections(f) == [f EXCEPT !.apply = FALSE]

RowChosen(r, sel) ==
    \A key \in FilterKeys : sel[key] = {} \/ r[ColumnOf(key)] \in sel[key]

RECURSIVE RowsChosen(_, _)
RowsChosen(d, sel) ==
    IF d = <<>> THEN <<>>
    ELSE (IF RowChosen(Head(d), sel) THEN <<Head(d)>> ELSE <<>>) \o RowsChosen(Tail(d), sel)

C2_CacheIsLastApply ==
    "filtered_df" \in DOMAIN session_state =>
        session_state["filtered_df"] =
            IF applied = <<>> THEN load_data ELSE RowsChosen(load_data, applied[1])

C2_NoApplyKeepsCache ==
    ("filtered_df" \in DOMAIN session_state /\ ~filters'.apply)
        => session_state'["filtered_df"] = session_state["filtered_df"]

\* C2: after any sequence of reruns the cached table is the full table if
\* apply was never pressed, and otherwise the rows of the full table (not of
\* the previously cached view) chosen by the selections of the most recent
\* apply; a rerun without apply leaves the cached table as it was.
C2_SessionCache == [](C2_CacheIsLastApply) /\ [][C2_NoApplyKeepsCache]_vars

C2_Witness ==
    /\ applied # <<>>
    /\ ~filters.apply
    /\ Selections(filters) # applied[1]
    /\ session_state["filtered_df"] # load_data
    /\ Len(session_state["filtered_df"]) = 2
    /\ RowsChosen(load_data, Selections(filters)) # session_state["filtered_df"]
    /\ RowsChosen(session_state["filtered_df"], applied[1]) = session_state["filtered_df"]
    /\ reruns = MaxReruns

-----------------------------------------------------------------------------
(* C3, C4, C5: Graph Builder *)

Genes(d) == {d[k].KRAB_ZNF : k \in 1..Len(d)}
TEs(d) == {d[k].Gene : k \in 1..Len(d)}

\* the kind a symbol gets when it is first inserted (line 44 runs before 45)
FirstKind(d, n) ==
    LET k == CHOOSE j \in 1..Len(d) :
                 /\ n \in {d[j].KRAB_ZNF, d[j].Gene}
                 /\ \A h \in 1..(j - 1) : n \notin {d[h].KRAB_ZNF, d[h].Gene}
    IN  IF d[k].KRAB_ZNF = n THEN "gene" ELSE "te"

\* C3: once all rows are inserted, every edge has both endpoints among the
\* nodes and joins exactly one node of kind gene with one node of kind TE,
\* and every node still has the kind it was first inserted with.
C3_Bipartite ==
    Built =>
        /\ \A e \in EdgeSet(G) :
              /\ e \subseteq NodeSet(G)
              /\ \E u, v \in e : /\ u # v
                                 /\ G.attr[u]["type"] = "gene"
                                 /\ G.attr[v]["type"] = "te"
        /\ \A n \in NodeSet(G) : G.attr[n]["type"] = FirstKind(df, n)

\* C4: the number of nodes is the number of distinct KRAB-ZNF values plus
\* the number of distinct Gene values of the filtered rows.
C4_NodeCount ==
    Built => Len(G.nodes) = Cardinality(Genes(df)) + Cardinality(TEs(df))

LastWithPair(d, g, t) ==
    CHOOSE j \in 1..Len(d) :
        /\ d[j].KRAB_ZNF = g /\ d[j].Gene = t
        /\ \A h \in (j + 1)..Len(d) : ~(d[h].KRAB_ZNF = g /\ d[h].Gene = t)

LastWithTE(d, t) ==
    CHOOSE j \in 1..Len(d) :
        /\ d[j].Gene = t
        /\ \A h \in (j + 1)..Len(d) : d[h].Gene # t

\* C5: the edge of a (gene, TE) pair carries the coefficient of the last row
\* with that gene in 'KRAB-ZNF' and that TE in 'Gene', and a TE's exp
\* attribute is the exp of the last row naming it in 'Gene'.
C5_UpsertOverwrite ==
    Built =>
        \A k \in 1..Len(df) :
            LET g == df[k].KRAB_ZNF
                t == df[k].Gene
            IN  /\ {g, t} \in EdgeSet(G)
                /\ G.weight[{g, t}] = df[LastWithPair(df, g, t)].coef
                /\ "exp" \in DOMAIN G.attr[t]
                /\ G.attr[t]["exp"] = df[LastWithTE(df, t)].exp

-----------------------------------------------------------------------------
(* C6, C7: companion graph and layout *)

\* C6: the companion graph has the nodes and the edges of G, each weight the
\* absolute value of the signed one; the position map the layout stage
\* returns has an entry for every node of G, and no position lookup of the
\* edge loop or the node loop fails.
C6_LayoutCoverage ==
    /\ Built =>
          /\ NodeSet(G_pos_weight) = NodeSet(G)
          /\ EdgeSet(G_pos_weight) = EdgeSet(G)
          /\ \A e \in EdgeSet(G) : G_pos_weight.weight[e] = Abs(G.weight[e])
    /\ LaidOut => NodeSet(G) \subseteq DOMAIN pos
    /\ error # "KeyError"

C6_Witness ==
    /\ pc = "done"
    /\ layout_used = "spring"
    /\ Len(G.nodes) = 2
    /\ \E e \in EdgeSet(G) : G.weight[e] < 0 /\ G_pos_weight.weight[e] = 1
    /\ Len(edge_trace) = 2
    /\ Len(node_trace.x) = 2

\* C7: whenever the primary layout raises, the seeded fallback is run on the
\* same graph, and the layout stage never ends the run with an error: it
\* always leaves a position map (an empty one if no layout can be made).
C7_LayoutNeverPropagates ==
    /\ (LaidOut /\ layout_used = "spring") => pos = LayoutOf(G_pos_weight)
    /\ ~(pc = "crashed" /\ error = "layout")

-----------------------------------------------------------------------------
(* C8, C9: Renderer *)

TracesOf(e) == {k \in 1..Len(edge_trace) : {edge_trace[k].text[1], edge_trace[k].text[2]} = e}

OneTracePerEdge ==
    /\ Len(edge_trace) = Cardinality(EdgeSet(G))
    /\ \A e \in EdgeSet(G) : Cardinality(TracesOf(e)) = 1

\* C8 as amended: one line trace per edge; the trace has the positive colour
\* exactly when the weight is greater than 0, and the negative colour exactly
\* when it is not (a weight of 0 is drawn in the negative colour).
C8_EdgeColouring ==
    Drawn =>
        /\ OneTracePerEdge
        /\ \A e \in EdgeSet(G) : \A k \in TracesOf(e) :
              /\ edge_trace[k].color = custom_red <=> G.weight[e] > 0
              /\ edge_trace[k].color = custom_blue <=> ~(G.weight[e] > 0)
        /\ LineTraces(fig) = edge_trace

\* C8 as stated: positive colour iff weight > 0, negative colour iff weight < 0
C8_AsStated ==
    Drawn =>
        /\ OneTracePerEdge
        /\ \A e \in EdgeSet(G) : \A k \in TracesOf(e) :
              /\ edge_trace[k].color = custom_red <=> G.weight[e] > 0
              /\ edge_trace[k].color = custom_blue <=> G.weight[e] < 0

C8_Witness ==
    /\ pc = "done"
    /\ Len(edge_trace) = 2
    /\ \E j, k \in 1..Len(edge_trace) :
          /\ edge_trace[j].text[3] = 0 /\ edge_trace[j].color = custom_blue
          /\ edge_trace[k].text[3] = 1 /\ edge_trace[k].color = custom_red

\* C9: a gene node gets the black border; a TE node gets the up colour for
\* 'up-regulated', the down colour for 'down-regulated', and the up colour
\* when its category is absent or any other value.
C9_NodeBorder ==
    Drawn =>
        /\ Len(node_trace.line_color) = Len(G.nodes)
        /\ \A k \in 1..Len(G.nodes) :
              LET a == G.attr[G.nodes[k]]
                  c == node_trace.line_color[k]
              IN  /\ a["type"] = "gene" => c = "black"
                  /\ a["type"] = "te" =>
                        c = IF "exp" \in DOMAIN a /\ a["exp"] = "down-regulated"
                            THEN custom_blue ELSE custom_red

-----------------------------------------------------------------------------
(* C10: empty propagation *)

\* C10: when the filtered record set is empty the run never raises, can
\* always take its next step, and ends with a chart that was drawn and holds
\* no line trace and no marker.
C10_EmptyPropagation ==
    (Filtered /\ df = <<>>) =>
        /\ pc # "crashed"
        /\ pc # "done" => ENABLED RunStep
        /\ pc = "done" =>
              /\ fig.shown
              /\ LineTraces(fig) = <<>>
              /\ \A k \in 1..Len(MarkerTraces(fig)) : MarkerTraces(fig)[k].x = <<>>
              /\ table = <<>>

C10_Witness ==
    /\ pc = "done"
    /\ df = <<>>
    /\ Len(csv) = 2
    /\ fig.shown
    /\ Len(fig.data) = 1

-----------------------------------------------------------------------------
(* The input file of each script *)

\* The CSV the script reads cannot be used: the upload if there is one,
\* otherwise the file at the script's path
InputUnusable ==
    IF uploaded_file.status # "none" THEN uploaded_file.status = "unreadable"
    ELSE disk_file.status # "ok"

Recovered ==
    /\ run_state = "done"
    /\ messages # <<>>
    /\ loaded_df \in {<<>>, CleanTable(sample_data)}

\* C11: in each of the three dashboards, a run whose input CSV is missing or
\* unreadable ends recovered (a message is shown or the sample dataset stands
\* in, the working dataset is empty or the default one) and never ends with
\* an unhandled error.
C11_MissingFileRecovered ==
    (run_state # "start" /\ InputUnusable) => Recovered

-----------------------------------------------------------------------------
(* filter_data of src/app_previous.py *)

RowsOf(d) == {d[k] : k \in 1..Len(d)}

Filtered_previous == script = "app_previous" /\ run_state = "done" /\ loaded_df # <<>>

EqualsSelections(r, f) ==
    \A col \in TextFilterSet : f[col] # "" => r[col] = f[col]

====
